---- MODULE Spec2Model ----
(***************************************************************************)
(* SmartDoc-AI: the summarization provider chain of app/ai.py              *)
(* (smart_document_summary and the providers it drives) and the            *)
(* extractive fallback, modelled on texts that are sequences of            *)
(* one-character strings; the persistence layer of app/crud.py on the rows *)
(* of app/models.py; and the endpoints of app/main.py that write to it     *)
(* (upload, summarize, delete, notification settings), interleaved at the  *)
(* granularity of their database statements.                               *)
(***************************************************************************)
EXTENDS Integers, Sequences, FiniteSets, TLC

VARIABLES
    document_text,   \* argument of the call: a sequence of characters
    length,          \* argument of the call: a length value (NoneLen for None)
    client,          \* ai.py:12  TRUE iff the OpenAI client was constructed
    pc,              \* position of the call inside smart_document_summary
    model_idx,       \* openai_document_summary: index into models of the loop
    last_error,      \* openai_document_summary: last_error (NoError for None)
    result,          \* the dict returned to the caller (NoResult before return)
    raised,          \* TRUE iff an exception escaped smart_document_summary
    attempts,        \* history: the providers called, in call order
    outcomes,        \* history: the status each called provider returned
    requests,        \* history: the network requests made, in order
    errors,          \* history: the str(e) of each failed cloud model, in order
    frame,           \* locals of fallback_extractive_summary at its return
    documents,       \* models.py:32  the rows of table documents
    summaries,       \* models.py:47  the rows of table summaries
    email_notifications, \* models.py:24  users.email_notifications, by user id
    foreign_keys,    \* TRUE iff the database enforces summaries.document_id
    next_id,         \* the next identifier uuid.uuid4 hands out
    ops,             \* number of requests (calls, in SpecCrud) started so far
    reqs,            \* the summarize and delete requests, in order of arrival
    last_op          \* history: the last call of a crud function and its effect

chainvars == <<document_text, length, client, pc, model_idx, last_error, result,
               raised, attempts, outcomes, requests, errors, frame>>

appvars == <<documents, summaries, email_notifications, foreign_keys, next_id,
             ops, reqs, last_op>>

vars == <<chainvars, appvars>>

----------------------------------------------------------------------------
(* Bounds of the model *)

MaxFrags == 3

\* uploads and requests in one behaviour of the application
MaxOps == 3

----------------------------------------------------------------------------
(* Characters and the str / re primitives the code uses *)

UpperChars == <<"A","B","C","D","E","F","G","H","I","J","K","L","M",
                "N","O","P","Q","R","S","T","U","V","W","X","Y","Z">>

LowerChars == <<"a","b","c","d","e","f","g","h","i","j","k","l","m",
                "n","o","p","q","r","s","t","u","v","w","x","y","z">>

DigitChars == {"0","1","2","3","4","5","6","7","8","9"}

Range(s) == {s[k] : k \in DOMAIN s}

Min(a, b) == IF a <= b THEN a ELSE b

\* str.isspace, the class \s of re
SpaceChars == {" ", "\n", "\t", "\r"}

IsSpace(c) == c \in SpaceChars

UpperSet == {UpperChars[k] : k \in DOMAIN UpperChars}

WordChars == UpperSet \cup {LowerChars[k] : k \in DOMAIN LowerChars} \cup DigitChars \cup {"_"}

\* the class \w of re
IsWordChar(c) == c \in WordChars

LowerOf == [c \in UpperSet |-> LowerChars[CHOOSE k \in DOMAIN UpperChars : UpperChars[k] = c]]

LowerChar(c) == IF c \in UpperSet THEN LowerOf[c] ELSE c

\* str.lower
Lower(s) == [k \in DOMAIN s |-> LowerChar(s[k])]

MinOf(S) == CHOOSE k \in S : \A j \in S : k <= j

MaxOf(S) == CHOOSE k \in S : \A j \in S : k >= j

NonSpaces(s) == {k \in DOMAIN s : ~IsSpace(s[k])}

\* str.lstrip
SubSeqFromMin(s, ns) == IF ns = {} THEN <<>> ELSE SubSeq(s, MinOf(ns), Len(s))

LStrip(s) == SubSeqFromMin(s, NonSpaces(s))

\* str.strip
SubSeqMinMax(s, ns) == IF ns = {} THEN <<>> ELSE SubSeq(s, MinOf(ns), MaxOf(ns))

Strip(s) == SubSeqMinMax(s, NonSpaces(s))

Spaces(s) == {k \in DOMAIN s : IsSpace(s[k])}

\* re.sub(r'\s+', ' ', s): every maximal run of whitespace becomes one blank
RECURSIVE CollapseSpaces(_)
CollapseAt(s, first) ==
    SubSeq(s, 1, first - 1) \o <<" ">> \o CollapseSpaces(LStrip(SubSeq(s, first, Len(s))))

CollapseSpaces(s) == IF Spaces(s) = {} THEN s ELSE CollapseAt(s, MinOf(Spaces(s)))

\* re.sub(r'[^\w]', '', word)
StripNonWord(w) == SelectSeq(w, IsWordChar)

\* str.endswith
EndsWith(s, p) == Len(s) >= Len(p) /\ SubSeq(s, Len(s) - Len(p) + 1, Len(s)) = p

\* the positions of s where sep occurs
Occurrences(s, sep) ==
    {k \in 1..(Len(s) - Len(sep) + 1) : SubSeq(s, k, k + Len(sep) - 1) = sep}

\* str.split(sep): cut at the non-overlapping occurrences of sep, left to right
RECURSIVE SplitOn(_, _)
SplitAt(s, sep, first) ==
    <<SubSeq(s, 1, first - 1)>> \o SplitOn(SubSeq(s, first + Len(sep), Len(s)), sep)

SplitOn(s, sep) ==
    IF Occurrences(s, sep) = {} THEN <<s>> ELSE SplitAt(s, sep, MinOf(Occurrences(s, sep)))

\* str.split(): the maximal runs of non-whitespace
RECURSIVE SplitWords(_)
SplitWordsAt(t, first) ==
    <<SubSeq(t, 1, first - 1)>> \o SplitWords(SubSeq(t, first, Len(t)))

SplitWordsStripped(t) ==
    IF t = <<>> THEN <<>>
    ELSE IF Spaces(t) = {} THEN <<t>>
    ELSE SplitWordsAt(t, MinOf(Spaces(t)))

SplitWords(s) == SplitWordsStripped(LStrip(s))

\* sep.join(parts)
RECURSIVE Join(_, _)
Join(parts, sep) ==
    IF parts = <<>> THEN <<>>
    ELSE IF Len(parts) = 1 THEN parts[1]
    ELSE parts[1] \o sep \o Join(Tail(parts), sep)

RECURSIVE Flatten(_)
Flatten(parts) ==
    IF parts = <<>> THEN <<>> ELSE Head(parts) \o Flatten(Tail(parts))

RECURSIVE SumSeq(_)
SumSeq(ns) == IF ns = <<>> THEN 0 ELSE Head(ns) + SumSeq(Tail(ns))

IsBlank_NoStrip(text) == text = <<>>

\* `not document_text or not document_text.strip()`
IsBlank(text) == Strip(text) = <<>>

DotBlank == <<".", " ">>

----------------------------------------------------------------------------
(* The dict a provider returns.  Keys a provider leaves out are Absent. *)

Absent == "absent"

NoneLen == "None"

valid_lengths == {"short", "medium", "long"}

ResultDict(summary, status, len, model_used, sentences_selected) ==
    [summary |-> summary, status |-> status, length |-> len,
     model_used |-> model_used, sentences_selected |-> sentences_selected]

ErrorDict(summary, len) == ResultDict(summary, "error", len, Absent, Absent)

NoTextMessage == <<"No document text provided for summarization.">>

----------------------------------------------------------------------------
(* fallback_extractive_summary, ai.py:438-505 *)

\* text = re.sub(r'\s+', ' ', document_text.strip())
CleanText(text) == CollapseSpaces(Strip(text))

StripEach(ws) == [k \in DOMAIN ws |-> StripNonWord(ws[k])]

\* the words of text.lower().split(), each stripped of its non-word characters
CleanWords(text) == StripEach(SplitWords(Lower(text)))

\* word_freq.get(word, 0): words of at most 3 characters are never counted
WordFreq(words, word) ==
    IF Len(word) > 3
    THEN Cardinality({k \in DOMAIN words : words[k] = word})
    ELSE 0

LengthPenalty(n_words) ==
    IF n_words < 5 THEN 0 - 10
    ELSE IF n_words > 50 THEN 0 - 5
    ELSE 0

ScoreOfWords(words, sentence_words) ==
    SumSeq([k \in DOMAIN sentence_words |-> WordFreq(words, sentence_words[k])])
    + LengthPenalty(Len(sentence_words))

\* the score + length_penalty of one sentence
SentenceScore(words, sentence) == ScoreOfWords(words, CleanWords(sentence))

ScoredOf(sentences, words) ==
    [k \in DOMAIN sentences |->
        [score |-> SentenceScore(words, sentences[k]), i |-> k - 1,
         sentence |-> sentences[k]]]

\* the list of (score + length_penalty, i, sentence), i counted from 0
ScoredSentences(text) == ScoredOf(SplitOn(text, DotBlank), CleanWords(text))

TupleGreater_Ascending(a, b) == a.score < b.score \/ (a.score = b.score /\ a.i < b.i)

\* the order of the tuples (score, i, sentence); i is unique in a list
TupleGreater(a, b) == a.score > b.score \/ (a.score = b.score /\ a.i > b.i)

\* list.sort(reverse=True)
SortReverse(scored) ==
    [k \in DOMAIN scored |->
        CHOOSE e \in Range(scored) :
            Cardinality({d \in Range(scored) : TupleGreater(d, e)}) = k - 1]

SortByIndex_KeepScoreOrder(scored) == scored

\* sorted(list, key=lambda x: x[1])
SortByIndex(scored) ==
    [k \in DOMAIN scored |->
        CHOOSE e \in Range(scored) :
            Cardinality({d \in Range(scored) : d.i < e.i}) = k - 1]

NumSentences_LongAsMedium(n, len) ==
    CASE len = "short" -> Min(3, n)
      [] OTHER         -> Min(5, n)

\* the dict lookup {...}.get(length, 5)
NumSentences(n, len) ==
    CASE len = "short"  -> Min(3, n)
      [] len = "medium" -> Min(5, n)
      [] len = "long"   -> Min(8, n)
      [] OTHER          -> 5

\* list[:num]
Slice(seq, num) == SubSeq(seq, 1, Min(num, Len(seq)))

EnsurePeriod(summary) ==
    IF EndsWith(summary, <<".">>) THEN summary ELSE summary \o <<".">>

\* '. '.join([sent[2] for sent in selected]), then the trailing period
SummaryOf(selected) ==
    EnsurePeriod(Join([k \in DOMAIN selected |-> selected[k].sentence], DotBlank))

FrameOfSelected(sentences, scored, num, selected) ==
    [sentences        |-> sentences,
     scored_sentences |-> scored,
     num_sentences    |-> num,
     selected         |-> selected,
     summary          |-> SummaryOf(selected)]

FrameOfNum(sentences, scored, num) ==
    FrameOfSelected(sentences, scored, num, SortByIndex(Slice(scored, num)))

FrameOfScored(sentences, scored, len) ==
    FrameOfNum(sentences, scored, NumSentences(Len(sentences), len))

FrameOfText(text, len) ==
    FrameOfScored(SplitOn(text, DotBlank), SortReverse(ScoredSentences(text)), len)

\* the locals of fallback_extractive_summary when it returns
ExtractiveFrame(text_in, len) == FrameOfText(CleanText(text_in), len)

NoFrame == [sentences |-> <<>>, scored_sentences |-> <<>>, num_sentences |-> 0,
            selected |-> <<>>, summary |-> <<>>]

ExtractiveDict(f, len) ==
    ResultDict(f.summary, "success", len, "extractive_fallback", f.num_sentences)

ReturnOfFrame(f, len) == [dict |-> ExtractiveDict(f, len), frame |-> f]

\* the dict fallback_extractive_summary returns, with its locals
fallback_extractive_summary(text_in, len) ==
    IF IsBlank(text_in)
    THEN [dict |-> ErrorDict(NoTextMessage, len), frame |-> NoFrame]
    ELSE ReturnOfFrame(ExtractiveFrame(text_in, len), len)

----------------------------------------------------------------------------
(* The inputs: document texts and length values *)

\* 'Cats are mammals. Cats have fur. The quick brown fox jumps. Foxes are wild.'
ExampleText ==
    <<"C","a","t","s"," ","a","r","e"," ","m","a","m","m","a","l","s",".",
      " ","C","a","t","s"," ","h","a","v","e"," ","f","u","r","."," ","T",
      "h","e"," ","q","u","i","c","k"," ","b","r","o","w","n"," ","f","o",
      "x"," ","j","u","m","p","s","."," ","F","o","x","e","s"," ","a","r",
      "e"," ","w","i","l","d",".">>

\* 'Cats have fur. Foxes are wild'
TwoSentenceText ==
    <<"C","a","t","s"," ","h","a","v","e"," ","f","u","r","."," ","F","o",
      "x","e","s"," ","a","r","e"," ","w","i","l","d">>

\* ' \n\t '
BlankText ==
    <<" ","\n","\t"," ">>

\* 'Cats have fur. '
FragA ==
    <<"C","a","t","s"," ","h","a","v","e"," ","f","u","r","."," ">>

\* 'The quick brown fox jumps over cats.\n'
FragB ==
    <<"T","h","e"," ","q","u","i","c","k"," ","b","r","o","w","n"," ","f",
      "o","x"," ","j","u","m","p","s"," ","o","v","e","r"," ","c","a","t",
      "s",".","\n">>

\* 'Fur.  Wild cats! '
FragC ==
    <<"F","u","r","."," "," ","W","i","l","d"," ","c","a","t","s","!"," ">>

\* 'Foxes. Wild_cats jump. Fur. '
FragD ==
    <<"F","o","x","e","s","."," ","W","i","l","d","_","c","a","t","s"," ",
      "j","u","m","p","."," ","F","u","r","."," ">>

\* 'mammals '
LongWord ==
    <<"m","a","m","m","a","l","s"," ">>

RECURSIVE Repeat(_, _)
Repeat(s, n) == IF n = 0 THEN <<>> ELSE s \o Repeat(s, n - 1)

\* one sentence of 51 words, then one of 5 words and one of 3
LongSentenceText ==
    Repeat(LongWord, 51) \o <<".", " ">> \o Repeat(LongWord, 5) \o <<".", " ">> \o FragA

Frags == {FragA, FragB, FragC, FragD}

\* the concatenations of at most MaxFrags fragments
FragTexts == {Flatten(fs) : fs \in UNION {[1..n -> Frags] : n \in 0..MaxFrags}}

HandTexts == {<<>>, BlankText, ExampleText, TwoSentenceText, LongSentenceText}

Texts == FragTexts \cup HandTexts

\* an absent length is the default "medium" (ai.py:438, schemas.py:63);
\* None and "tiny" are the length values outside valid_lengths
Lengths == valid_lengths \cup {NoneLen, "tiny"}

----------------------------------------------------------------------------
(* Exceptions.  An exception is a class and the text str(e) gives. *)

NoExc == [cls |-> "", text |-> ""]

Exc(cls, text) == [cls |-> cls, text |-> text]

\* the classes an exception of class cls is an instance of
Bases(cls) ==
    CASE cls = "ConnectionError" -> {"ConnectionError", "RequestException", "Exception"}
      [] cls = "ConnectTimeout"  -> {"ConnectTimeout", "ConnectionError", "Timeout",
                                     "RequestException", "Exception"}
      [] cls = "ReadTimeout"     -> {"ReadTimeout", "Timeout", "RequestException",
                                     "Exception"}
      [] cls = "JSONDecodeError" -> {"JSONDecodeError", "ValueError", "Exception"}
      [] OTHER                   -> {cls, "Exception"}

IsInstance(exc, base) == exc # NoExc /\ base \in Bases(exc.cls)

----------------------------------------------------------------------------
(* What the services outside the process may answer *)

\* the completion texts a model may return
Contents == { <<>>, <<" ", "\n">>, <<"O", "k", ".">>, <<" ", "O", "k", ".", "\n">> }

NoneStripText == "'NoneType' object has no attribute 'strip'"

\* client.chat.completions.create: a completion, a completion whose content
\* is None, or an exception (whose text may be empty)
CloudOutcomes ==
    [kind : {"return"}, content : Contents, exc : {NoExc}]
    \cup [kind : {"return_none"}, content : {<<>>}, exc : {NoExc}]
    \cup [kind : {"raise"}, content : {<<>>},
          exc : {Exc("RateLimitError", "rate limit"), Exc("APIError", "")}]

\* requests.get(/api/tags): an exception, or a response with a status code
\* and a body
TagsOutcomes ==
    [kind : {"raise"}, status_code : {0}, body : {""},
     exc : {Exc("ConnectionError", "refused"), Exc("ReadTimeout", "read timed out")}]
    \cup [kind : {"response"}, status_code : {200},
          body : {"has_model", "no_model", "bad_json", "no_name_key"}, exc : {NoExc}]
    \cup [kind : {"response"}, status_code : {500}, body : {"has_model"}, exc : {NoExc}]

\* requests.post(/api/generate, timeout=60): an exception, or a response with
\* a status code and a body
GenerateOutcomes ==
    [kind : {"raise"}, status_code : {0}, body : {""}, content : {<<>>},
     exc : {Exc("ReadTimeout", "read timed out"), Exc("ConnectionError", "reset")}]
    \cup [kind : {"response"}, status_code : {200}, body : {"json"},
          content : Contents, exc : {NoExc}]
    \cup [kind : {"response"}, status_code : {200},
          body : {"bad_json", "no_response_key", "not_a_dict", "bad_duration"},
          content : {<<"O", "k", ".">>}, exc : {NoExc}]
    \cup [kind : {"response"}, status_code : {500}, body : {"json"},
          content : {<<>>}, exc : {NoExc}]

----------------------------------------------------------------------------
(* Length handling shared by the LLM providers *)

NormalizeLength_Missing(len) == len

\* `if length not in valid_lengths: length = "medium"`
NormalizeLength(len) == IF len \in valid_lengths THEN len ELSE "medium"

\* `1000 if length == "long" else 500 if length == "medium" else 200`
GenerationCap(len) ==
    IF len = "long" THEN 1000 ELSE IF len = "medium" THEN 500 ELSE 200

\* the request a provider sends: the instruction is the one of a length class
Request(to, model, len) ==
    [to |-> to, model |-> model, instruction |-> len, cap |-> GenerationCap(len)]

TagsRequest == [to |-> "ollama_tags", model |-> "", instruction |-> "", cap |-> 0]

----------------------------------------------------------------------------
(* openai_document_summary, ai.py:294-389 *)

models == <<"gpt-4o-mini", "gpt-3.5-turbo", "gpt-4">>

NoError == "NoError"

\* the exception one iteration of the loop raises inside its try, if any:
\* the request fails, or content is None and .strip() fails
OpenAITryException(outcome) ==
    CASE outcome.kind = "raise"       -> outcome.exc
      [] outcome.kind = "return_none" -> Exc("AttributeError", NoneStripText)
      [] OTHER                        -> NoExc

\* `except Exception as e`
OpenAICatches(exc) == IsInstance(exc, "Exception")

OpenAILastError_KeepFirst(prev, exc) == IF prev = NoError THEN exc.text ELSE prev

\* `last_error = str(e)`
OpenAILastError(prev, exc) == exc.text

\* the dict of a completed iteration
OpenAISuccess(outcome, len, model) ==
    ResultDict(Strip(outcome.content), "success", len, model, Absent)

\* the dict after the loop: `if last_error:` is false for None and for ""
OpenAIAllFailed(err, len) ==
    ErrorDict(<<"Failed to generate summary with all available models.">>
              \o (IF err # NoError /\ err # "" THEN <<" Last error: ", err>> ELSE <<>>),
              len)

OpenAINotConfigured(len) ==
    ErrorDict(<<"OpenAI API key not configured. Please set OPENAI_API_KEY in your .env file.">>,
              len)

----------------------------------------------------------------------------
(* test_ollama_connection and ollama_document_summary, ai.py:18-152 *)

OLLAMA_MODEL == "mistral:7b"

\* the exception raised inside the try of test_ollama_connection, if any
TagsTryException(outcome) ==
    CASE outcome.kind = "raise" -> outcome.exc
      [] outcome.kind = "response" /\ outcome.status_code = 200
            /\ outcome.body = "bad_json" -> Exc("JSONDecodeError", "Expecting value")
      [] outcome.kind = "response" /\ outcome.status_code = 200
            /\ outcome.body = "no_name_key" -> Exc("KeyError", "'name'")
      [] OTHER -> NoExc

\* the except clauses of test_ollama_connection
TagsCatches(exc) == IsInstance(exc, "ConnectionError") \/ IsInstance(exc, "Exception")

\* the pair (is_connected, message), or the exception that escapes
test_ollama_connection(outcome) ==
    LET exc == TagsTryException(outcome)
    IN  IF exc # NoExc
        THEN IF ~TagsCatches(exc)
             THEN [escapes |-> exc, is_connected |-> FALSE, message |-> <<>>]
             ELSE IF IsInstance(exc, "ConnectionError")
             THEN [escapes |-> NoExc, is_connected |-> FALSE,
                   message |-> <<"Ollama not running. Start with: ollama serve">>]
             ELSE [escapes |-> NoExc, is_connected |-> FALSE,
                   message |-> <<"Ollama connection error: ", exc.text>>]
        ELSE IF outcome.status_code = 200
             THEN IF outcome.body = "has_model"
                  THEN [escapes |-> NoExc, is_connected |-> TRUE,
                        message |-> <<"Ollama connected - Mistral 7B available">>]
                  ELSE [escapes |-> NoExc, is_connected |-> FALSE,
                        message |-> <<"Ollama connected, but ", OLLAMA_MODEL,
                                      " not found. Available models: ", "[]">>]
             ELSE [escapes |-> NoExc, is_connected |-> FALSE,
                   message |-> <<"Ollama responded with status ",
                                 ToString(outcome.status_code)>>]

\* the exception raised inside the try of ollama_document_summary, if any
GenerateTryException(outcome) ==
    CASE outcome.kind = "raise" -> outcome.exc
      [] outcome.kind = "response" /\ outcome.status_code = 200
            /\ outcome.body = "bad_json" -> Exc("JSONDecodeError", "Expecting value")
      [] outcome.kind = "response" /\ outcome.status_code = 200
            /\ outcome.body = "not_a_dict"
            -> Exc("AttributeError", "'list' object has no attribute 'get'")
      [] outcome.kind = "response" /\ outcome.status_code = 200
            /\ outcome.body = "bad_duration"
            -> Exc("TypeError", "unsupported operand type(s) for /: 'str' and 'int'")
      [] OTHER -> NoExc

GenerateCatches_TimeoutOnly(exc) == IsInstance(exc, "Timeout")

\* the except clauses of ollama_document_summary
GenerateCatches(exc) == IsInstance(exc, "Timeout") \/ IsInstance(exc, "Exception")

\* result.get("response", "").strip()
GenerateSummaryText(outcome) ==
    IF outcome.body = "no_response_key" THEN <<>> ELSE Strip(outcome.content)

NoDict == ErrorDict(<<>>, "")

\* what ollama_document_summary does with the answer to its generate
\* request: the dict it returns, or the exception that escapes
OllamaGenerateResult(outcome, len) ==
    LET exc == GenerateTryException(outcome)
    IN  IF exc # NoExc
        THEN IF ~GenerateCatches(exc)
             THEN [escapes |-> exc, dict |-> NoDict]
             ELSE IF IsInstance(exc, "Timeout")
             THEN [escapes |-> NoExc,
                   dict |-> ErrorDict(<<"Ollama request timed out - the model might be processing a large document">>,
                                      len)]
             ELSE [escapes |-> NoExc,
                   dict |-> ErrorDict(<<"Error connecting to Ollama: ", exc.text>>, len)]
        ELSE IF outcome.status_code = 200
             THEN IF GenerateSummaryText(outcome) # <<>>
                  THEN [escapes |-> NoExc,
                        dict |-> ResultDict(GenerateSummaryText(outcome), "success", len,
                                            "ollama/" \o OLLAMA_MODEL, Absent)]
                  ELSE [escapes |-> NoExc,
                        dict |-> ErrorDict(<<"Ollama returned empty response">>, len)]
             ELSE [escapes |-> NoExc,
                   dict |-> ErrorDict(<<"Ollama request failed with status ",
                                        ToString(outcome.status_code), ": ", "text">>,
                                      len)]

OllamaNotAvailable(message, len) ==
    ErrorDict(<<"Ollama not available: ">> \o message, len)

----------------------------------------------------------------------------
(* huggingface_document_summary, ai.py:154-199 *)

HF_AVAILABLE == FALSE

\* summarizer is None, so the call ends at its availability check
huggingface_document_summary(text, len) ==
    IF IsBlank(text)
    THEN ErrorDict(NoTextMessage, len)
    ELSE ErrorDict(<<"Hugging Face summarization model not available. Please install: pip install transformers torch">>,
                   len)

----------------------------------------------------------------------------
(* The state of the application around the chain: database rows, requests *)

\* no rows, no request: the application while one call of the chain is studied
NoOp ==
    [op |-> "none", user_id |-> "", documents |-> {}, summaries |-> {},
     deleted_documents |-> {}, deleted_summaries |-> {}, owners |-> {}]

AppIdle ==
    /\ documents = {}
    /\ summaries = {}
    /\ email_notifications = <<>>
    /\ foreign_keys = FALSE
    /\ next_id = 1
    /\ ops = 0
    /\ reqs = <<>>
    /\ last_op = NoOp

----------------------------------------------------------------------------
(* smart_document_summary, ai.py:391-436, one action per blocking step *)

NoResult == ErrorDict(<<>>, "")

\* the texts the chain is called with
\* six sentences
SixSentenceText == FragD \o FragD

ChainTexts == {<<>>, BlankText, TwoSentenceText, FragA, SixSentenceText}

Init ==
    /\ document_text \in ChainTexts
    /\ length \in Lengths
    /\ client \in BOOLEAN
    /\ pc = "smart_openai"
    /\ model_idx = 0
    /\ last_error = NoError
    /\ result = NoResult
    /\ raised = FALSE
    /\ attempts = <<>>
    /\ outcomes = <<>>
    /\ requests = <<>>
    /\ errors = <<>>
    /\ frame = NoFrame
    /\ AppIdle

AfterProvider_ReturnAlways(dict, next) == "done"

AfterProvider_RetryCloud(dict, next) ==
    IF dict.status = "success" THEN "done" ELSE "smart_openai"

AfterProvider_NeverReturn(dict, next) == next

\* the position after a provider returned dict to the chain: a success is
\* returned to the caller, an error falls through to the position next
AfterProvider(dict, next) == IF dict.status = "success" THEN "done" ELSE next

\* ai.py:409-415 with the input check of openai_document_summary (306-319)
SmartTryOpenAI ==
    /\ pc = "smart_openai"
    /\ IF ~client
       THEN /\ pc' = "smart_ollama"
            /\ UNCHANGED <<model_idx, last_error, result, attempts, outcomes>>
       ELSE /\ attempts' = Append(attempts, "openai")
            /\ IF IsBlank(document_text)
               THEN /\ result' = ErrorDict(NoTextMessage, length)
                    /\ outcomes' = Append(outcomes, "error")
                    /\ pc' = AfterProvider(result', "smart_ollama")
                    /\ UNCHANGED <<model_idx, last_error>>
               ELSE /\ pc' = "openai_model"
                    /\ model_idx' = 1
                    /\ last_error' = NoError
                    /\ UNCHANGED <<result, outcomes>>
    /\ UNCHANGED <<document_text, length, client, raised, requests, errors, frame>>
    /\ UNCHANGED appvars

\* one iteration of `for model in models` (ai.py:353-378), and after the
\* last one the error return of ai.py:380-389
OpenAITryModel ==
    /\ pc = "openai_model"
    /\ \E outcome \in CloudOutcomes :
         LET len == NormalizeLength(length)
             exc == OpenAITryException(outcome)
         IN  /\ requests' = Append(requests, Request("openai", models[model_idx], len))
             /\ IF exc = NoExc
                THEN /\ result' = OpenAISuccess(outcome, len, models[model_idx])
                     /\ outcomes' = Append(outcomes, result'.status)
                     /\ pc' = AfterProvider(result', "smart_ollama")
                     /\ UNCHANGED <<model_idx, last_error, errors, raised>>
                ELSE IF ~OpenAICatches(exc)
                THEN /\ raised' = TRUE
                     /\ pc' = "done"
                     /\ UNCHANGED <<model_idx, last_error, errors, result, outcomes>>
                ELSE /\ last_error' = OpenAILastError(last_error, exc)
                     /\ errors' = Append(errors, exc.text)
                     /\ raised' = raised
                     /\ IF model_idx < Len(models)
                        THEN /\ model_idx' = model_idx + 1
                             /\ UNCHANGED <<pc, result, outcomes>>
                        ELSE /\ result' = OpenAIAllFailed(last_error', len)
                             /\ outcomes' = Append(outcomes, result'.status)
                             /\ pc' = AfterProvider(result', "smart_ollama")
                             /\ UNCHANGED model_idx
    /\ UNCHANGED <<document_text, length, client, attempts, frame>>
    /\ UNCHANGED appvars

\* ai.py:418-419 with the input check of ollama_document_summary (52-58)
SmartTryOllama ==
    /\ pc = "smart_ollama"
    /\ attempts' = Append(attempts, "ollama")
    /\ IF IsBlank(document_text)
       THEN /\ result' = ErrorDict(NoTextMessage, length)
            /\ outcomes' = Append(outcomes, "error")
            /\ pc' = AfterProvider(result', "smart_huggingface")
       ELSE /\ pc' = "ollama_tags"
            /\ UNCHANGED <<result, outcomes>>
    /\ UNCHANGED <<document_text, length, client, model_idx, last_error, raised,
                   requests, errors, frame>>
    /\ UNCHANGED appvars

\* ai.py:60-67: the availability check of ollama_document_summary
OllamaTestConnection ==
    /\ pc = "ollama_tags"
    /\ \E outcome \in TagsOutcomes :
         LET t == test_ollama_connection(outcome)
         IN  /\ requests' = Append(requests, TagsRequest)
             /\ IF t.escapes # NoExc
                THEN /\ raised' = TRUE
                     /\ pc' = "done"
                     /\ UNCHANGED <<result, outcomes>>
                ELSE IF ~t.is_connected
                THEN /\ result' = OllamaNotAvailable(t.message, length)
                     /\ outcomes' = Append(outcomes, "error")
                     /\ pc' = AfterProvider(result', "smart_huggingface")
                     /\ raised' = raised
                ELSE /\ pc' = "ollama_generate"
                     /\ UNCHANGED <<result, outcomes, raised>>
    /\ UNCHANGED <<document_text, length, client, model_idx, last_error, attempts,
                   errors, frame>>
    /\ UNCHANGED appvars

\* ai.py:69-152: the generate request of ollama_document_summary
OllamaGenerate ==
    /\ pc = "ollama_generate"
    /\ \E outcome \in GenerateOutcomes :
         LET len == NormalizeLength(length)
             g   == OllamaGenerateResult(outcome, len)
         IN  /\ requests' = Append(requests, Request("ollama_generate", OLLAMA_MODEL, len))
             /\ IF g.escapes # NoExc
                THEN /\ raised' = TRUE
                     /\ pc' = "done"
                     /\ UNCHANGED <<result, outcomes>>
                ELSE /\ result' = g.dict
                     /\ outcomes' = Append(outcomes, g.dict.status)
                     /\ pc' = AfterProvider(g.dict, "smart_huggingface")
                     /\ raised' = raised
    /\ UNCHANGED <<document_text, length, client, model_idx, last_error, attempts,
                   errors, frame>>
    /\ UNCHANGED appvars

\* ai.py:425-432
SmartTryHuggingFace ==
    /\ pc = "smart_huggingface"
    /\ IF HF_AVAILABLE
       THEN /\ attempts' = Append(attempts, "huggingface")
            /\ result' = huggingface_document_summary(document_text, length)
            /\ outcomes' = Append(outcomes, result'.status)
            /\ pc' = AfterProvider(result', "smart_fallback")
       ELSE /\ pc' = "smart_fallback"
            /\ UNCHANGED <<attempts, result, outcomes>>
    /\ UNCHANGED <<document_text, length, client, model_idx, last_error, raised,
                   requests, errors, frame>>
    /\ UNCHANGED appvars

ReturnFallback(r) ==
    /\ result' = r.dict
    /\ frame' = r.frame
    /\ outcomes' = Append(outcomes, r.dict.status)

\* ai.py:434-436: whatever the fallback returns is returned to the caller
SmartFallback ==
    /\ pc = "smart_fallback"
    /\ attempts' = Append(attempts, "extractive")
    /\ ReturnFallback(fallback_extractive_summary(document_text, length))
    /\ pc' = "done"
    /\ UNCHANGED <<document_text, length, client, model_idx, last_error, raised,
                   requests, errors>>
    /\ UNCHANGED appvars

Next ==
    \/ SmartTryOpenAI
    \/ OpenAITryModel
    \/ SmartTryOllama
    \/ OllamaTestConnection
    \/ OllamaGenerate
    \/ SmartTryHuggingFace
    \/ SmartFallback

Spec == Init /\ [][Next]_vars

----------------------------------------------------------------------------
(* fallback_extractive_summary called on its own, on the larger set of texts *)

InitExtract ==
    /\ document_text \in Texts
    /\ length \in Lengths
    /\ client = FALSE
    /\ pc = "smart_fallback"
    /\ model_idx = 0
    /\ last_error = NoError
    /\ result = NoResult
    /\ raised = FALSE
    /\ attempts = <<>>
    /\ outcomes = <<>>
    /\ requests = <<>>
    /\ errors = <<>>
    /\ frame = NoFrame
    /\ AppIdle

NextExtract == SmartFallback

SpecExtract == InitExtract /\ [][NextExtract]_vars

----------------------------------------------------------------------------
(* The persistence layer, app/crud.py, on the rows of app/models.py *)

\* models.py:20-24: two registered users, one of them an administrator
Users == {"u1", "u2"}

Role == [u \in Users |-> IF u = "u2" THEN "admin" ELSE "user"]

\* the texts an upload may extract: blank, or one sentence
AppTexts == {BlankText, FragA}

\* the lengths a summarize request may carry: a known one, an unknown one,
\* and null
AppLengths == {"long", "tiny", NoneLen}

\* the identifiers a request may name: the ones handed out so far, and
\* next_id for an unknown one
Ids == 1..next_id

\* a Column(default=...) of models.py: the default is inserted for None
ColumnDefault(value, default) == IF value = NoneLen THEN default ELSE value

\* models.Document(filename=..., original_text=..., user_id=...)
Document(id, user_id, original_text) ==
    [id |-> id, user_id |-> user_id, original_text |-> original_text]

\* schemas.SummaryCreate(document_id=..., summary_text=..., summary_length=...,
\* status=...): the fields are Optional[str], nothing is validated
SummaryCreate(document_id, summary_text, summary_length, status) ==
    [document_id |-> document_id, summary_text |-> summary_text,
     summary_length |-> summary_length, status |-> status]

\* models.Summary(**summary.dict()) as the row the commit inserts
Summary(id, data) ==
    [id             |-> id,
     document_id    |-> data.document_id,
     summary_text   |-> data.summary_text,
     summary_length |-> ColumnDefault(data.summary_length, "medium"),
     status         |-> ColumnDefault(data.status, "completed")]

crud_create_document(docs, id, user_id, original_text) ==
    docs \cup {Document(id, user_id, original_text)}

crud_get_document_AnyOwner(docs, document_id, user_id) ==
    {d \in docs : d.id = document_id}

\* the rows .first() chooses from: the empty set is None
crud_get_document(docs, document_id, user_id) ==
    {d \in docs : d.id = document_id /\ d.user_id = user_id}

crud_list_documents(docs, user_id) == {d \in docs : d.user_id = user_id}

DeleteSummariesOf_Nothing(sums, document_id) == sums

\* db.query(Summary).filter(Summary.document_id == document_id).delete()
DeleteSummariesOf(sums, document_id) ==
    {s \in sums : s.document_id # document_id}

\* db.delete(document)
DeleteDocument(docs, document_id) == {d \in docs : d.id # document_id}

crud_create_summary(sums, id, data) == sums \cup {Summary(id, data)}

crud_get_summary_by_document_WrongKey(docs, sums, document_id, user_id) ==
    {s \in sums : s.id = document_id
                  /\ \E d \in docs : d.id = s.document_id /\ d.user_id = user_id}

\* query(Summary).join(Document).filter(...): the rows .first() chooses from
crud_get_summary_by_document(docs, sums, document_id, user_id) ==
    {s \in sums : s.document_id = document_id
                  /\ \E d \in docs : d.id = s.document_id /\ d.user_id = user_id}

crud_get_summary(sums, summary_id) == {s \in sums : s.id = summary_id}

crud_list_summaries_by_user(docs, sums, user_id) ==
    {s \in sums : \E d \in docs : d.id = s.document_id /\ d.user_id = user_id}

crud_get_all_users == Users

crud_get_all_documents(docs) == docs

----------------------------------------------------------------------------
(* The functions of app/crud.py called one at a time, each as one commit *)

ChainIdle ==
    /\ document_text = <<>>
    /\ length = "medium"
    /\ client = FALSE
    /\ pc = "idle"
    /\ model_idx = 0
    /\ last_error = NoError
    /\ result = NoResult
    /\ raised = FALSE
    /\ attempts = <<>>
    /\ outcomes = <<>>
    /\ requests = <<>>
    /\ errors = <<>>
    /\ frame = NoFrame

\* the owner of every document, as <<document id, user id>>
Owners(docs) == {<<d.id, d.user_id>> : d \in docs}

\* the record of a call: who it was made for, the rows it returned and the
\* rows it deleted, with the owners of the documents before the call
Called(op, user_id, docs, sums, deleted_docs, deleted_sums) ==
    [op |-> op, user_id |-> user_id, documents |-> docs, summaries |-> sums,
     deleted_documents |-> deleted_docs, deleted_summaries |-> deleted_sums,
     owners |-> Owners(documents)]

InitCrud ==
    /\ ChainIdle
    /\ documents = {}
    /\ summaries = {}
    /\ email_notifications = [u \in Users |-> TRUE]
    /\ foreign_keys \in BOOLEAN
    /\ next_id = 1
    /\ ops = 0
    /\ reqs = <<>>
    /\ last_op = NoOp

\* what no function of crud.py touches
CrudFrame == UNCHANGED <<chainvars, email_notifications, foreign_keys, reqs>>

Reads(op, user_id, docs, sums) ==
    /\ last_op' = Called(op, user_id, docs, sums, {}, {})
    /\ UNCHANGED <<documents, summaries, next_id, ops>>
    /\ CrudFrame

CrudCreateDocument(u, text) ==
    /\ ops < MaxOps
    /\ documents' = crud_create_document(documents, next_id, u, text)
    /\ next_id' = next_id + 1
    /\ ops' = ops + 1
    /\ last_op' = Called("create_document", u, {}, {}, {}, {})
    /\ UNCHANGED summaries
    /\ CrudFrame

\* main.py:99-128 calls create_summary for a document that get_document found
CrudCreateSummary(u, d, len) ==
    /\ ops < MaxOps
    /\ crud_get_document(documents, d, u) # {}
    /\ summaries' = crud_create_summary(summaries, next_id,
                                        SummaryCreate(d, <<"O", "k", ".">>, len, "completed"))
    /\ next_id' = next_id + 1
    /\ ops' = ops + 1
    /\ last_op' = Called("create_summary", u, {}, {}, {}, {})
    /\ UNCHANGED documents
    /\ CrudFrame

CrudGetDocument(u, d) ==
    Reads("get_document", u, crud_get_document(documents, d, u), {})

CrudListDocuments(u) ==
    Reads("list_documents", u, crud_list_documents(documents, u), {})

\* crud.py:22-29
CrudDeleteDocument(u, d) ==
    IF crud_get_document(documents, d, u) # {}
    THEN /\ summaries' = DeleteSummariesOf(summaries, d)
         /\ documents' = DeleteDocument(documents, d)
         /\ last_op' = Called("delete_document", u, crud_get_document(documents, d, u), {},
                              documents \ DeleteDocument(documents, d),
                              summaries \ DeleteSummariesOf(summaries, d))
         /\ UNCHANGED <<next_id, ops>>
         /\ CrudFrame
    ELSE Reads("delete_document", u, {}, {})

CrudGetSummaryByDocument(u, d) ==
    LET found == crud_get_summary_by_document(documents, summaries, d, u)
    IN  IF found = {}
        THEN Reads("get_summary_by_document", u, {}, {})
        ELSE \E s \in found : Reads("get_summary_by_document", u, {}, {s})

\* crud.py:45-46 takes no user id; u is the user the caller acts for
CrudGetSummary(u, id) ==
    Reads("get_summary", u, {}, crud_get_summary(summaries, id))

CrudListSummariesByUser(u) ==
    Reads("list_summaries_by_user", u, {},
          crud_list_summaries_by_user(documents, summaries, u))

\* main.py:168-182: the two admin endpoints, for a user whose role is admin
CrudGetAllUsers(u) ==
    /\ Role[u] = "admin"
    /\ Reads("get_all_users", u, {}, {})

CrudGetAllDocuments(u) ==
    /\ Role[u] = "admin"
    /\ Reads("get_all_documents", u, crud_get_all_documents(documents), {})

NextCrud ==
    \/ \E u \in Users, text \in AppTexts : CrudCreateDocument(u, text)
    \/ \E u \in Users, d \in Ids, len \in AppLengths : CrudCreateSummary(u, d, len)
    \/ \E u \in Users, d \in Ids : CrudGetDocument(u, d)
    \/ \E u \in Users : CrudListDocuments(u)
    \/ \E u \in Users, d \in Ids : CrudDeleteDocument(u, d)
    \/ \E u \in Users, d \in Ids : CrudGetSummaryByDocument(u, d)
    \/ \E u \in Users, id \in Ids : CrudGetSummary(u, id)
    \/ \E u \in Users : CrudListSummariesByUser(u)
    \/ \E u \in Users : CrudGetAllUsers(u)
    \/ \E u \in Users : CrudGetAllDocuments(u)

SpecCrud == InitCrud /\ [][NextCrud]_vars

----------------------------------------------------------------------------
(* The endpoints of app/main.py that write: upload, summarize, delete,     *)
(* notification settings; one action per database statement or commit      *)

\* the dicts smart_document_summary(text, len) can return: the fallback's
\* dict, or the success of a provider tried before it
SmartReturns(text, len) ==
    {fallback_extractive_summary(text, len).dict}
    \cup (IF IsBlank(text)
          THEN {}
          ELSE {OpenAISuccess(o, NormalizeLength(len), models[m]) :
                    o \in {c \in CloudOutcomes : c.kind = "return"}, m \in DOMAIN models}
               \cup {d \in {OllamaGenerateResult(o, NormalizeLength(len)).dict :
                                o \in GenerateOutcomes} : d.status = "success"})

\* what summarize_document reads of the dict: ai_result["status"] and
\* ai_result["summary"]
AiResults(text, len) ==
    {[status |-> d.status, summary |-> d.summary] : d \in SmartReturns(text, len)}

NoAi == [status |-> "", summary |-> <<>>]

\* the answer of an endpoint: the HTTP status code, and for summarize the
\* status and summary_id of SummarizeResponse
Response(code, status, summary_id) ==
    [code |-> code, status |-> status, summary_id |-> summary_id]

NoResponse == Response(0, "", 0)

\* the notification of a request: what the Notifier did, and the preference
\* of the user when it was called
Email(outcome, enabled) == [outcome |-> outcome, enabled |-> enabled]

NoEmail == Email("none", FALSE)

\* what send_summary_notification can do: 202 from SendGrid, another status
\* code (send_email returns 500 for what it catches, emailer.py:21-23), or an
\* exception that escapes it (Mail(...) is built outside the try,
\* emailer.py:11-16)
NotifierOutcomes == {"delivered", "rejected", "raised"}

\* a request in flight: its arguments, its position, its locals (document is
\* the set of rows .first() chose from, ai_result, summary_id), and as
\* history what it saw and did
Req(op, user_id, document_id, len, document) ==
    [op |-> op, user_id |-> user_id, document_id |-> document_id, length |-> len,
     pc |-> IF document = {} THEN "done"
            ELSE IF op = "summarize" THEN "get_summary" ELSE "delete_commit",
     document |-> document, ai_result |-> NoAi, summary_id |-> 0,
     response |-> IF document = {} THEN Response(404, "", 0) ELSE NoResponse,
     existing |-> {}, racing |-> FALSE, provider_called |-> FALSE,
     insert |-> "none", email |-> NoEmail]

InitApp ==
    /\ ChainIdle
    /\ documents = {}
    /\ summaries = {}
    /\ email_notifications = [u \in Users |-> TRUE]
    /\ foreign_keys \in BOOLEAN
    /\ next_id = 1
    /\ ops = 0
    /\ reqs = <<>>
    /\ last_op = NoOp

\* main.py:32-55 with a file whose text is extracted (any other file is
\* answered 400 and changes nothing)
UploadDocument(u, text) ==
    /\ ops < MaxOps
    /\ documents' = crud_create_document(documents, next_id, u, text)
    /\ next_id' = next_id + 1
    /\ ops' = ops + 1
    /\ UNCHANGED <<chainvars, summaries, email_notifications, foreign_keys, reqs,
                   last_op>>

\* main.py:190-199
UpdateNotificationSettings(u, enabled) ==
    /\ ops < MaxOps
    /\ ops' = ops + 1
    /\ email_notifications' = [email_notifications EXCEPT ![u] = enabled]
    /\ UNCHANGED <<chainvars, documents, summaries, foreign_keys, next_id, reqs,
                   last_op>>

\* a request arrives and runs up to its first query
Arrives(req) ==
    /\ ops < MaxOps
    /\ ops' = ops + 1
    /\ reqs' = Append(reqs, req)
    /\ UNCHANGED <<chainvars, documents, summaries, email_notifications,
                   foreign_keys, next_id, last_op>>

\* main.py:99-102: 404 unless the user owns a document with this id
SummarizeGetDocument(u, d, len) ==
    Arrives(Req("summarize", u, d, len, crud_get_document(documents, d, u)))

\* one step of request r, which only changes the request
Steps(r, req) ==
    /\ reqs' = [reqs EXCEPT ![r] = req]
    /\ UNCHANGED <<chainvars, documents, summaries, email_notifications,
                   foreign_keys, next_id, ops, last_op>>

\* history: the summaries the document of request q has, if it is still a
\* document of the user
ExistingOf(q) ==
    {s.id : s \in {x \in summaries :
                      /\ x.document_id = q.document_id
                      /\ \E d \in documents : d.id = q.document_id /\ d.user_id = q.user_id}}

\* history: another summarize request for the same document is between its
\* existence check and its create_summary
RacingWith(r) ==
    \E k \in DOMAIN reqs \ {r} :
        /\ reqs[k].op = "summarize"
        /\ reqs[k].document_id = reqs[r].document_id
        /\ reqs[k].pc \in {"generate", "create"}

Checked(r, q) == [q EXCEPT !.existing = ExistingOf(q), !.racing = RacingWith(r)]

ExistingSummary_Unchecked(q) == {}

\* main.py:104: the rows .first() chooses existing_summary from
ExistingSummary(q) ==
    crud_get_summary_by_document(documents, summaries, q.document_id, q.user_id)

\* main.py:104-111: the existence check
SummarizeGetSummary(r) ==
    /\ reqs[r].op = "summarize" /\ reqs[r].pc = "get_summary"
    /\ IF ExistingSummary(reqs[r]) = {}
       THEN Steps(r, [Checked(r, reqs[r]) EXCEPT !.pc = "generate"])
       ELSE \E existing_summary \in ExistingSummary(reqs[r]) :
                Steps(r, [Checked(r, reqs[r]) EXCEPT
                              !.pc = "done",
                              !.response = Response(200, "already_exists",
                                                    existing_summary.id)])

\* main.py:115-118: the chain; its error becomes the 500 of main.py:144-145
SummarizeGenerate(r) ==
    /\ reqs[r].op = "summarize" /\ reqs[r].pc = "generate"
    /\ \E document \in reqs[r].document :
       \E ai_result \in AiResults(document.original_text, reqs[r].length) :
            IF ai_result.status = "error"
            THEN Steps(r, [reqs[r] EXCEPT !.pc = "done", !.provider_called = TRUE,
                                          !.ai_result = ai_result,
                                          !.response = Response(500, "", 0)])
            ELSE Steps(r, [reqs[r] EXCEPT !.pc = "create", !.provider_called = TRUE,
                                          !.ai_result = ai_result])

\* main.py:121-128: create_summary commits the row; a database that enforces
\* the foreign key refuses the row of a document that is gone, and the
\* exception becomes the 500 of main.py:144-145
SummarizeCreate(r) ==
    /\ reqs[r].op = "summarize" /\ reqs[r].pc = "create"
    /\ IF foreign_keys /\ ~\E d \in documents : d.id = reqs[r].document_id
       THEN Steps(r, [reqs[r] EXCEPT !.pc = "done", !.insert = "rejected",
                                     !.response = Response(500, "", 0)])
       ELSE /\ summaries' = crud_create_summary(
                                summaries, next_id,
                                SummaryCreate(reqs[r].document_id, reqs[r].ai_result.summary,
                                              reqs[r].length, "completed"))
            /\ next_id' = next_id + 1
            /\ reqs' = [reqs EXCEPT ![r] = [reqs[r] EXCEPT !.pc = "notify",
                                                          !.insert = "committed",
                                                          !.summary_id = next_id]]
            /\ UNCHANGED <<chainvars, documents, email_notifications, foreign_keys,
                           ops, last_op>>

EmailErrorCaught_InSendEmailOnly(outcome) == outcome # "raised"

\* main.py:135 `except Exception as email_error`
EmailErrorCaught(outcome) == TRUE

\* main.py:138-142, or the 500 of main.py:144-145 for an exception that
\* main.py:135 let through
AfterNotify(outcome, summary_id) ==
    IF EmailErrorCaught(outcome)
    THEN Response(200, "completed", summary_id)
    ELSE Response(500, "", 0)

\* main.py:131-142: user.email_notifications is read after the commit
SummarizeNotify(r) ==
    /\ reqs[r].op = "summarize" /\ reqs[r].pc = "notify"
    /\ IF email_notifications[reqs[r].user_id]
       THEN \E outcome \in NotifierOutcomes :
                Steps(r, [reqs[r] EXCEPT
                              !.pc = "done",
                              !.email = Email(outcome, email_notifications[reqs[r].user_id]),
                              !.response = AfterNotify(outcome, reqs[r].summary_id)])
       ELSE Steps(r, [reqs[r] EXCEPT
                          !.pc = "done",
                          !.response = Response(200, "completed", reqs[r].summary_id)])

\* main.py:78-88, crud.py:23-24: 404 unless the user owns the document
DeleteGetDocument(u, d) ==
    Arrives(Req("delete", u, d, NoneLen, crud_get_document(documents, d, u)))

\* crud.py:25-29: the summaries of the document and the document go in one
\* commit; main.py:78 answers 204
DeleteCommit(r) ==
    /\ reqs[r].op = "delete" /\ reqs[r].pc = "delete_commit"
    /\ summaries' = DeleteSummariesOf(summaries, reqs[r].document_id)
    /\ documents' = DeleteDocument(documents, reqs[r].document_id)
    /\ reqs' = [reqs EXCEPT ![r] = [reqs[r] EXCEPT !.pc = "done",
                                                  !.response = Response(204, "", 0)]]
    /\ UNCHANGED <<chainvars, email_notifications, foreign_keys, next_id, ops, last_op>>

NextApp ==
    \/ \E u \in Users, text \in AppTexts : UploadDocument(u, text)
    \/ \E u \in Users, enabled \in BOOLEAN : UpdateNotificationSettings(u, enabled)
    \/ \E u \in Users, d \in Ids, len \in AppLengths : SummarizeGetDocument(u, d, len)
    \/ \E r \in DOMAIN reqs : SummarizeGetSummary(r)
    \/ \E r \in DOMAIN reqs : SummarizeGenerate(r)
    \/ \E r \in DOMAIN reqs : SummarizeCreate(r)
    \/ \E r \in DOMAIN reqs : SummarizeNotify(r)
    \/ \E u \in Users, d \in Ids : DeleteGetDocument(u, d)
    \/ \E r \in DOMAIN reqs : DeleteCommit(r)

SpecApp == InitApp /\ [][NextApp]_vars

----------------------------------------------------------------------------
(* The claims *)

Last(seq) == seq[Len(seq)]

Returned == pc = "done" /\ ~raised

\* the text of the call is empty or holds whitespace only
WhitespaceOnly == \A k \in DOMAIN document_text : document_text[k] \in SpaceChars

ExtractiveReturned == Returned /\ attempts # <<>> /\ Last(attempts) = "extractive"

\* the place of a provider in the priority order of the chain
Rank(provider) ==
    CASE provider = "openai"      -> 1
      [] provider = "ollama"      -> 2
      [] provider = "huggingface" -> 3
      [] provider = "extractive"  -> 4

\* C1: a call on a text that is not blank returns status=success, whatever
\* the cloud and local services answered.
C1_NonBlankSucceeds ==
    (pc = "done" /\ ~WhitespaceOnly) => (~raised /\ result.status = "success")

C1_Witness ==
    /\ Returned /\ ~WhitespaceOnly
    /\ Len(errors) = Len(models)
    /\ attempts = <<"openai", "ollama", "extractive">>
    /\ outcomes = <<"error", "error", "success">>
    /\ result.status = "success"

\* C2: a call on a blank text returns status=error and sends no request:
\* no completion request, no list-models probe, no generate request.
C2_BlankIsErrorWithoutRequests ==
    WhitespaceOnly =>
        (requests = <<>> /\ (pc = "done" => (~raised /\ result.status = "error")))

C2_Witness ==
    /\ Returned /\ client /\ document_text = BlankText
    /\ attempts = <<"openai", "ollama", "extractive">>
    /\ result.status = "error"

\* C3: the providers are attempted in the order cloud, local, optional,
\* extractive, each at most once; after the cloud provider returned error the
\* next provider attempted is the local one and no later request goes to the
\* cloud; a success of the local provider is the result of the call.
C3_FixedOrderNoRetry ==
    /\ \A j, k \in DOMAIN attempts : j < k => Rank(attempts[j]) < Rank(attempts[k])
    /\ (outcomes # <<>> /\ attempts[1] = "openai" /\ outcomes[1] = "error")
          => (pc = "smart_ollama" \/ (Len(attempts) >= 2 /\ attempts[2] = "ollama"))
    /\ \A j, k \in DOMAIN requests :
          (j < k /\ requests[j].to # "openai") => requests[k].to # "openai"
    /\ \A k \in DOMAIN outcomes :
          (attempts[k] = "ollama" /\ outcomes[k] = "success")
             => (Returned /\ result.status = "success"
                 /\ result.model_used = "ollama/mistral:7b")

C3_Witness ==
    /\ Returned /\ Len(errors) = Len(models)
    /\ attempts = <<"openai", "ollama">>
    /\ outcomes = <<"error", "success">>
    /\ result.status = "success"

\* the model_used a provider puts into its successful dict
ModelUsedOf(provider) ==
    CASE provider = "openai"      -> {models[k] : k \in DOMAIN models}
      [] provider = "ollama"      -> {"ollama/mistral:7b"}
      [] provider = "huggingface" -> {"facebook/bart-large-cnn"}
      [] provider = "extractive"  -> {"extractive_fallback"}

\* C4: the first provider that returns success ends the call with its dict
\* and no later provider is attempted; a provider is attempted only after
\* every provider attempted before it returned error.
C4_FirstSuccessWins ==
    /\ \A k \in DOMAIN outcomes :
          outcomes[k] = "success"
             => /\ k = Len(outcomes) /\ k = Len(attempts)
                /\ Returned /\ result.status = "success"
                /\ result.model_used \in ModelUsedOf(attempts[k])
    /\ \A k \in DOMAIN attempts :
          \A j \in 1..(k - 1) : j \in DOMAIN outcomes /\ outcomes[j] = "error"

C4_Witness ==
    /\ Returned /\ attempts = <<"openai">> /\ outcomes = <<"success">>
    /\ Len(errors) = 1 /\ result.model_used = models[2]

\* C5: a success of the cloud provider carries a summary text that is not
\* empty (a model whose response is empty does not win).
C5_CloudSuccessIsNonEmpty ==
    (Returned /\ attempts = <<"openai">> /\ result.status = "success")
        => result.summary # <<>>

\* C6: when every model of the cloud provider failed, the provider returns
\* status=error without raising and its message ends with the error text of
\* the last model, gpt-4, and holds the text of no earlier model.
C6_AllModelsFailedKeepsLastError ==
    (pc = "smart_ollama" /\ Len(errors) = Len(models)) =>
        /\ ~raised
        /\ attempts = <<"openai">> /\ outcomes = <<"error">>
        /\ result.status = "error"
        /\ Len(requests) = Len(models) /\ Last(requests).model = "gpt-4"
        /\ result.summary =
              IF Last(errors) = ""
              THEN <<"Failed to generate summary with all available models.">>
              ELSE <<"Failed to generate summary with all available models.",
                     " Last error: ", Last(errors)>>
        /\ \A k \in 1..(Len(errors) - 1) :
              (errors[k] # Last(errors) /\ errors[k] # "")
                 => \A j \in DOMAIN result.summary : result.summary[j] # errors[k]

C6_Witness ==
    /\ pc = "smart_ollama" /\ Len(errors) = Len(models)
    /\ errors[1] = "rate limit" /\ errors[2] = NoneStripText /\ errors[3] = "rate limit"
    /\ result.status = "error"

\* C7: no exception escapes the call; every failure of the cloud and of the
\* local provider is a dict with status=error, after which the chain goes on
\* to the next provider.
C7_NeverRaises ==
    /\ ~raised
    /\ pc = "done" => (Len(outcomes) = Len(attempts) /\ result.status \in {"success", "error"})
    /\ \A k \in DOMAIN outcomes :
          (outcomes[k] = "error" /\ attempts[k] # "extractive")
             => (pc # "done" \/ Len(attempts) > k)

C7_Witness ==
    /\ pc = "smart_huggingface" /\ ~raised /\ Len(errors) = Len(models)
    /\ outcomes = <<"error", "error">>
    /\ Last(requests).to = "ollama_generate"
    /\ result = ErrorDict(<<"Ollama request timed out - the model might be processing a large document">>,
                          "medium")

\* C8: with a length value outside short, medium, long the call raises
\* nothing and every provider works as with length=medium: the same
\* generation cap and instruction in every request, the same sentences
\* selected and the same summary text from the extractive fallback.
C8_UnknownLengthIsMedium ==
    length \notin valid_lengths =>
        /\ ~raised
        /\ \A k \in DOMAIN requests :
              requests[k].to # "ollama_tags"
                 => requests[k] = Request(requests[k].to, requests[k].model, "medium")
        /\ (ExtractiveReturned /\ ~WhitespaceOnly)
              => /\ result.status = "success"
                 /\ result.summary = fallback_extractive_summary(document_text, "medium").dict.summary
                 /\ frame.selected = fallback_extractive_summary(document_text, "medium").frame.selected

C8_Witness ==
    /\ ExtractiveReturned /\ length = "tiny" /\ document_text = SixSentenceText
    /\ Len(frame.selected) = 5
    /\ Len(requests) = Len(models) + 2

\* the number of sentences a length class asks for
CapOf(len) ==
    CASE len = "short"  -> 3
      [] len = "medium" -> 5
      [] len = "long"   -> 8

SelectedIndices == {frame.selected[k].i : k \in DOMAIN frame.selected}

\* C9: on a text that is not blank and has n sentences (one more than the
\* occurrences of ". " in the cleaned text) the fallback selects exactly
\* min(n, 3) sentences for short, min(n, 5) for medium and min(n, 8) for
\* long, all different: 8 for long when n >= 8, and 2 when n = 2 whatever
\* the length value.
C9_SelectsMinOfCountAndCap ==
    (ExtractiveReturned /\ ~WhitespaceOnly) =>
        /\ Len(frame.sentences)
              = Cardinality(Occurrences(CleanText(document_text), DotBlank)) + 1
        /\ Cardinality(SelectedIndices) = Len(frame.selected)
        /\ SelectedIndices \subseteq 0..(Len(frame.sentences) - 1)
        /\ length \in valid_lengths
              => Len(frame.selected) = Min(Len(frame.sentences), CapOf(length))
        /\ (length = "long" /\ Len(frame.sentences) >= 8) => Len(frame.selected) = 8
        /\ Len(frame.sentences) = 2 => Len(frame.selected) = 2

C9_Witness ==
    /\ ExtractiveReturned /\ length = "long"
    /\ Len(frame.sentences) > 8 /\ Len(frame.selected) = 8

\* the score the specification gives a sentence: every pair of a word of the
\* sentence and an equal word of the text counts once if the word has more
\* than 3 characters; 10 off under 5 words, 5 off over 50 words
PairsOfWords(sentence_words, text_words) ==
    {pair \in (DOMAIN sentence_words) \X (DOMAIN text_words) :
        /\ sentence_words[pair[1]] = text_words[pair[2]]
        /\ Len(sentence_words[pair[1]]) > 3}

ClaimScoreOf(sentence_words, text_words) ==
    Cardinality(PairsOfWords(sentence_words, text_words))
    - (IF Len(sentence_words) < 5 THEN 10 ELSE 0)
    - (IF Len(sentence_words) > 50 THEN 5 ELSE 0)

ClaimScore(text, sentence) == ClaimScoreOf(CleanWords(sentence), CleanWords(text))

Unselected ==
    {frame.scored_sentences[k] : k \in DOMAIN frame.scored_sentences}
    \ {frame.selected[k] : k \in DOMAIN frame.selected}

\* C10: every sentence carries the score of the specification, no sentence
\* left out scores strictly higher than a selected one, and on the example
\* text with short the three selected are the first three sentences.
C10_SelectsHighestScores ==
    (ExtractiveReturned /\ ~WhitespaceOnly) =>
        /\ \A k \in DOMAIN frame.scored_sentences :
              /\ frame.scored_sentences[k].sentence
                    = frame.sentences[frame.scored_sentences[k].i + 1]
              /\ frame.scored_sentences[k].score
                    = ClaimScore(CleanText(document_text), frame.scored_sentences[k].sentence)
        /\ \A k \in DOMAIN frame.selected :
              /\ frame.selected[k] \in Range(frame.scored_sentences)
              /\ \A d \in Unselected : d.score <= frame.selected[k].score
        /\ (document_text = ExampleText /\ length = "short")
              => [k \in DOMAIN frame.selected |-> frame.selected[k].i] = <<0, 1, 2>>

C10_Witness ==
    /\ ExtractiveReturned /\ document_text = ExampleText /\ length = "short"
    /\ Len(frame.selected) = 3
    /\ \E d \in Unselected : d.score < frame.selected[1].score

\* the sentences of the selection, taken from the split of the input by
\* their positions and joined with ". "
JoinedSelected ==
    Join([k \in DOMAIN frame.selected |-> frame.sentences[frame.selected[k].i + 1]],
         DotBlank)

IsSliceOf(part, whole) ==
    \E a \in 1..(Len(whole) + 1) : SubSeq(whole, a, a + Len(part) - 1) = part

\* C11: the summary text of the fallback is made of the selected sentences,
\* each one a verbatim piece of the (whitespace-normalised) input, in
\* increasing order of their positions in the input whatever their scores,
\* joined with ". "; the text always ends with a period.
C11_SummaryInDocumentOrder ==
    (ExtractiveReturned /\ ~WhitespaceOnly) =>
        /\ \A j, k \in DOMAIN frame.selected :
              j < k => frame.selected[j].i < frame.selected[k].i
        /\ \A k \in DOMAIN frame.selected :
              IsSliceOf(frame.sentences[frame.selected[k].i + 1], CleanText(document_text))
        /\ result.summary \in {JoinedSelected, JoinedSelected \o <<".">>}
        /\ Last(result.summary) = "."

C11_Witness ==
    /\ ExtractiveReturned /\ ~WhitespaceOnly
    /\ Len(frame.selected) < Len(frame.sentences)
    /\ \E j, k \in DOMAIN frame.selected :
          j < k /\ frame.selected[j].score < frame.selected[k].score
    /\ result.summary = JoinedSelected \o <<".">>

\* C19: the sentences_selected of the returned dict is the number of
\* sentences placed in the summary text, for every text that is not blank
\* and every length value, the values outside short, medium, long on a text
\* of fewer than 5 sentences included.
C19_ReportedCountIsPlacedCount ==
    (ExtractiveReturned /\ ~WhitespaceOnly) =>
        result.sentences_selected = Len(frame.selected)

\* the rows the last call returned or deleted
DocumentsTouched == last_op.documents \cup last_op.deleted_documents

SummariesTouched == last_op.summaries \cup last_op.deleted_summaries

\* every row the last call returned or deleted is a document of the user the
\* call was made for, or a summary of such a document
TouchedOnlyOwn ==
    /\ \A d \in DocumentsTouched : d.user_id = last_op.user_id
    /\ \A s \in SummariesTouched : <<s.document_id, last_op.user_id>> \in last_op.owners

\* the functions of crud.py that take a user id
UserScoped ==
    {"get_document", "list_documents", "delete_document",
     "get_summary_by_document", "list_summaries_by_user"}

\* C14 as claimed: every read and delete of the persistence layer, made for
\* a user u, returns and deletes only documents of u and summaries of
\* documents of u.
C14_EveryOperationOwnerFiltered == TouchedOnlyOwn

\* C14 as it holds: the reads and the delete that take a user id
\* (get_document, list_documents, delete_document, get_summary_by_document,
\* list_summaries_by_user) return and delete only documents of that user and
\* summaries of documents of that user.
C14_UserScopedOwnerFiltered ==
    last_op.op \in UserScoped => TouchedOnlyOwn

C14_Witness ==
    /\ last_op.op = "delete_document"
    /\ last_op.deleted_documents # {}
    /\ last_op.deleted_summaries # {}
    /\ \E d \in documents : d.user_id # last_op.user_id

SummarizeReqs == {r \in DOMAIN reqs : reqs[r].op = "summarize"}

\* C12: a summarize request whose document has a Summary when the request
\* does its existence check (so every second, sequential request for the
\* document) is answered already_exists with the id of an existing Summary
\* of the document, creates no Summary, calls no provider and sends no
\* notification.
C12_SecondSummarizeReturnsExisting ==
    \A r \in SummarizeReqs :
        reqs[r].existing # {} =>
            /\ reqs[r].pc = "done"
            /\ reqs[r].response.code = 200
            /\ reqs[r].response.status = "already_exists"
            /\ reqs[r].response.summary_id \in reqs[r].existing
            /\ reqs[r].insert = "none" /\ reqs[r].summary_id = 0
            /\ ~reqs[r].provider_called
            /\ reqs[r].email = NoEmail

C12_Witness ==
    \E r1, r2 \in SummarizeReqs :
        /\ r1 < r2
        /\ reqs[r1].document_id = reqs[r2].document_id
        /\ reqs[r1].response.status = "completed"
        /\ reqs[r2].response.status = "already_exists"
        /\ reqs[r2].response.summary_id = reqs[r1].summary_id
        /\ Cardinality(summaries) = 1

SummariesOf(document_id) == {s \in summaries : s.document_id = document_id}

\* C13 as claimed: in every reachable state every document has at most one
\* Summary, interleaved summarize requests for one document included.
C13_AtMostOneSummary ==
    \A d \in documents : Cardinality(SummariesOf(d.id)) <= 1

\* C13 as it holds: a document has at most one Summary unless a summarize
\* request for it did its existence check while another summarize request
\* for the same document was between its existence check and its
\* create_summary.
C13_AtMostOneSummaryUnlessRaced ==
    \A d \in documents :
        \/ Cardinality(SummariesOf(d.id)) <= 1
        \/ \E r \in SummarizeReqs : reqs[r].document_id = d.id /\ reqs[r].racing

C13_Witness ==
    \E d \in documents :
        /\ Cardinality(SummariesOf(d.id)) = 1
        /\ \E r1, r2 \in SummarizeReqs :
              /\ r1 # r2
              /\ reqs[r1].document_id = d.id /\ reqs[r2].document_id = d.id
              /\ reqs[r1].pc = "done" /\ reqs[r2].pc = "done"
              /\ reqs[r1].insert = "committed" /\ reqs[r2].existing # {}
              /\ ~reqs[r1].racing /\ ~reqs[r2].racing

DeleteReqs == {r \in DOMAIN reqs : reqs[r].op = "delete"}

\* the step in which the delete of request r commits
Deletes(r) ==
    /\ r \in DeleteReqs
    /\ reqs[r].pc = "delete_commit"
    /\ reqs'[r].pc = "done"

\* the step in which a delete request arrives for a document that the user
\* does not own or that does not exist
DeleteRefused ==
    /\ Len(reqs') = Len(reqs) + 1
    /\ reqs'[Len(reqs')].op = "delete"
    /\ ~\E d \in documents : /\ d.id = reqs'[Len(reqs')].document_id
                             /\ d.user_id = reqs'[Len(reqs')].user_id

C16_NotifierNeverPropagates ==
    \A r \in SummarizeReqs :
        /\ reqs[r].email # NoEmail =>
              /\ reqs[r].email.outcome \in NotifierOutcomes
              /\ reqs[r].insert = "committed"
              /\ reqs[r].email.enabled
        /\ (reqs[r].pc = "done" /\ reqs[r].insert = "committed") =>
              reqs[r].response = Response(200, "completed", reqs[r].summary_id)
        /\ (reqs[r].pc = "done" /\ reqs[r].ai_result.status = "success") =>
              \/ reqs[r].insert = "committed"
              \/ reqs[r].insert = "rejected" /\ foreign_keys

C16_Witness ==
    \E r \in SummarizeReqs :
        /\ reqs[r].email.outcome = "raised"
        /\ reqs[r].response.status = "completed"
        /\ \E s \in summaries : s.id = reqs[r].summary_id

\* C17: every persisted Summary has a length class among short, medium, long
\* and a status among completed, failed, whatever length the requests
\* carried.
C17_PersistedLengthAndStatus ==
    \A s \in summaries :
        /\ s.summary_length \in valid_lengths
        /\ s.status \in {"completed", "failed"}

\* C18: in every reachable state every Summary belongs to a document that
\* exists, a delete interleaved with a summarize request for the same
\* document included.
C18_SummaryHasDocument ==
    \A s \in summaries : \E d \in documents : d.id = s.document_id

====
